---- MODULE Spec2Model ----
(***************************************************************************)
(* A model of the WebGPU demo scripts of this repository: the pan/zoom     *)
(* grid and the selectable-cell grid of grid2d.js, and the start-up of the *)
(* entry points of minor.js, mainUseUniform.js, testDraw.js and main.js.   *)
(*                                                                         *)
(* JavaScript Numbers are modelled as exact rationals <<n, d>> in lowest   *)
(* terms with d > 0; IEEE-754 rounding is not modelled.                    *)
(***************************************************************************)
EXTENDS Integers, Sequences, FiniteSets, TLC

(* ------------------------------------------------------------------ *)
(* Number arithmetic                                                   *)
(* ------------------------------------------------------------------ *)

Abs(n) == IF n < 0 THEN -n ELSE n

RECURSIVE Gcd(_, _)
Gcd(a, b) == IF b = 0 THEN a ELSE Gcd(b, a % b)

\* n/d in lowest terms, with a positive denominator
Norm(n, d) ==
  LET s == IF d < 0 THEN -1 ELSE 1
      g == Gcd(Abs(n), Abs(d))
  IN  <<(s * n) \div g, (s * d) \div g>>

R(n) == <<n, 1>>

Add(a, b) == Norm(a[1] * b[2] + b[1] * a[2], a[2] * b[2])
Sub(a, b) == Norm(a[1] * b[2] - b[1] * a[2], a[2] * b[2])
Mul(a, b) ==
  LET g1 == Gcd(Abs(a[1]), b[2])
      g2 == Gcd(Abs(b[1]), a[2])
  IN  IF a[1] = 0 \/ b[1] = 0 THEN <<0, 1>>
      ELSE <<(a[1] \div g1) * (b[1] \div g2), (a[2] \div g2) * (b[2] \div g1)>>
\* a / b for b # 0
Div(a, b) == Mul(a, Norm(b[2], b[1]))
Neg(a) == <<-a[1], a[2]>>

Lt(a, b) == a[1] * b[2] < b[1] * a[2]
Le(a, b) == a[1] * b[2] <= b[1] * a[2]

\* Math.max, Math.min, Math.floor, Math.ceil
MathMax(a, b) == IF Lt(a, b) THEN b ELSE a
MathMin(a, b) == IF Lt(b, a) THEN b ELSE a
MathFloor(a) == a[1] \div a[2]
MathCeil(a) == -((-a[1]) \div a[2])

\* The JavaScript remainder a % b of integers, b > 0: it takes the sign of a
JsRem(a, b) == IF a >= 0 THEN a % b ELSE -((-a) % b)

(* ------------------------------------------------------------------ *)
(* State                                                               *)
(* ------------------------------------------------------------------ *)

VARIABLES
  entry,              \* which entry point the page runs
  gpu,                \* whether navigator.gpu is defined
  pc,                 \* position of the entry point's async function
  adapter,            \* result of requestAdapter
  device,             \* result of requestDevice
  adapterRequests,    \* calls of requestAdapter so far
  alerts,             \* calls of alert() so far
  consoleErrors,      \* calls of console.error() so far
  uncaught,           \* an exception left the script / an unhandled rejection
  configured,         \* context.configure() has been called
  resources,          \* GPU objects created through the device
  rendered,           \* a command buffer has been submitted
  canvas,             \* [width, height] of the canvas
  rect,               \* canvas.getBoundingClientRect(): [left, top]
  currentZoom, panOffset,
  majorLineVertices, minorLineVertices,
  majorVertexBuffer, minorVertexBuffer,
  liveVertexBuffers,  \* vertex buffers created and not destroyed
  isPanning, lastMousePos,
  rafPending,         \* callbacks pending in requestAnimationFrame
  lastSubmit,         \* what the last executed frame() submitted
  scale, cameraPos, selectedCells,
  lastEvent,          \* the last wheel, click or resize event delivered
  events,             \* input events handled so far (bounded by MaxEvents)
  probe,              \* inputs and results of the coordinate-mapping harness
  observed,           \* history of the page no program variable holds: the last
                      \* button event, the drag in progress, calls on a null device,
                      \* calls of context.configure() by the ResizeObserver callback,
                      \* the clicks that came in a row
  bufferUpdates,      \* calls of updateVertexBuffers() so far
  compute             \* buffers, queue and result of renderCompute()

startupVars == <<entry, gpu, pc, adapter, device, adapterRequests, alerts,
                 consoleErrors, uncaught, configured, resources, rendered>>
gridVars == <<currentZoom, panOffset, majorLineVertices, minorLineVertices,
              majorVertexBuffer, minorVertexBuffer, liveVertexBuffers,
              isPanning, lastMousePos, rafPending, lastSubmit>>
selectVars == <<scale, cameraPos, selectedCells>>
vars == <<startupVars, canvas, rect, gridVars, selectVars, lastEvent, events,
          probe, observed, bufferUpdates, compute>>

(* ------------------------------------------------------------------ *)
(* Pan/zoom grid (grid2d.js, first initGrid2d)                         *)
(* ------------------------------------------------------------------ *)

MaxEvents == 2
MaxResources == 8

baseCellSize == 50
sectionInterval == 5

zoomMin == <<1, 20>>     \* 0.05
zoomMax == <<20, 1>>     \* 20.0

effectiveCellSize(zoom) == Mul(R(baseCellSize), zoom)

\* initialGridOrigin + panOffset on one axis: where logical 0 lies on the canvas
gridOriginPixels(size, pan) == Add(Div(R(size), R(2)), pan)

\* the lower limit computed from the canvas centre alone, the pan offset forgotten
viewMinLogicalNoPan(size, pan, zoom) ==
  Sub(Div(Neg(Div(R(size), R(2))), Mul(R(50), zoom)), R(5))

viewMinLogical(size, pan, zoom) ==
  Sub(Div(Neg(gridOriginPixels(size, pan)), effectiveCellSize(zoom)), R(5))

\* the upper limit with a margin of 7 cells
viewMaxLogicalMargin7(size, pan, zoom) ==
  Add(Div(Sub(R(size), gridOriginPixels(size, pan)), effectiveCellSize(zoom)), R(7))

viewMaxLogical(size, pan, zoom) ==
  Add(Div(Sub(R(size), gridOriginPixels(size, pan)), effectiveCellSize(zoom)), R(5))

\* the loop with "<" in place of "<="
LoopIndicesExclusive(lo, hi) ==
  LET first == MathFloor(lo)
      last  == MathCeil(hi) - 1
  IN  IF last < first THEN <<>> ELSE [k \in 1..(last - first + 1) |-> first + k - 1]

\* The indices a for-loop "for (l = Math.floor(lo); l <= Math.ceil(hi); l++)" visits
LoopIndices(lo, hi) ==
  LET first == MathFloor(lo)
      last  == MathCeil(hi)
  IN  IF last < first THEN <<>> ELSE [k \in 1..(last - first + 1) |-> first + k - 1]

\* a classification that never makes a negative index major
IsMajorIndexNonNegative(l) == l >= 0 /\ l % 5 = 0

IsMajorIndex(l) == JsRem(l, sectionInterval) = 0
IsMinorIndex(l) == ~IsMajorIndex(l)

\* push(...lineEndpoints) for every index of idxs: 4 numbers per line
VerticalEndpoints(idxs, yFrom, yTo) ==
  [k \in 1..(4 * Len(idxs)) |->
     LET lx == idxs[((k - 1) \div 4) + 1]
         c  == (k - 1) % 4
     IN  IF c = 0 THEN R(lx) ELSE IF c = 1 THEN yFrom ELSE IF c = 2 THEN R(lx) ELSE yTo]

HorizontalEndpoints(idxs, xFrom, xTo) ==
  [k \in 1..(4 * Len(idxs)) |->
     LET ly == idxs[((k - 1) \div 4) + 1]
         c  == (k - 1) % 4
     IN  IF c = 0 THEN xFrom ELSE IF c = 1 THEN R(ly) ELSE IF c = 2 THEN xTo ELSE R(ly)]

\* the guard with the threshold 1 instead of 2
DegenerateGuardAtOne(zoom) == Lt(Mul(R(50), zoom), R(1))

\* the guard with the threshold 3, above the smallest cell the zoom allows
DegenerateGuardAtThree(zoom) == Lt(Mul(R(50), zoom), R(3))

DegenerateGuard(zoom) == Lt(effectiveCellSize(zoom), R(2))

generateGridVertices(cv, pan, zoom) ==
  IF DegenerateGuard(zoom)
  THEN [major |-> <<>>, minor |-> <<>>]
  ELSE
    LET viewMinLogicalX == viewMinLogical(cv[1], pan.x, zoom)
        viewMaxLogicalX == viewMaxLogical(cv[1], pan.x, zoom)
        viewMinLogicalY == viewMinLogical(cv[2], pan.y, zoom)
        viewMaxLogicalY == viewMaxLogical(cv[2], pan.y, zoom)
        xs == LoopIndices(viewMinLogicalX, viewMaxLogicalX)
        ys == LoopIndices(viewMinLogicalY, viewMaxLogicalY)
        yFrom == Sub(viewMinLogicalY, R(5))
        yTo   == Add(viewMaxLogicalY, R(5))
        xFrom == Sub(viewMinLogicalX, R(5))
        xTo   == Add(viewMaxLogicalX, R(5))
    IN  [major |-> VerticalEndpoints(SelectSeq(xs, IsMajorIndex), yFrom, yTo)
                   \o HorizontalEndpoints(SelectSeq(ys, IsMajorIndex), xFrom, xTo),
         minor |-> VerticalEndpoints(SelectSeq(xs, IsMinorIndex), yFrom, yTo)
                   \o HorizontalEndpoints(SelectSeq(ys, IsMinorIndex), xFrom, xTo)]

Undefined == "undefined"

\* device.createBuffer({size: Math.max(16, n * 4)}) followed, when n > 0, by
\* queue.writeBuffer(buffer, 0, new Float32Array(vertices)): a new buffer is zeroed
createVertexBuffer(vertices) ==
  LET size == IF Len(vertices) * 4 > 16 THEN Len(vertices) * 4 ELSE 16
  IN  [created |-> TRUE,
       size |-> size,
       data |-> [k \in 1..(size \div 4) |->
                   IF k <= Len(vertices) THEN vertices[k] ELSE R(0)],
       destroyed |-> FALSE]

\* "let majorVertexBuffer, minorVertexBuffer;" before the first createBuffer
NoBuffer == [created |-> FALSE]

Alive(buffer) == IF buffer.created THEN 1 ELSE 0

\* destroy() called after the variables have been reassigned: it hits the new
\* buffers, and the replaced ones are never destroyed
updateVertexBuffersDestroyLate(cv, pan, zoom) ==
  LET g == generateGridVertices(cv, pan, zoom)
      replacing == majorVertexBuffer.created
  IN  /\ majorLineVertices' = g.major
      /\ minorLineVertices' = g.minor
      /\ majorVertexBuffer' = [createVertexBuffer(g.major) EXCEPT !.destroyed = replacing]
      /\ minorVertexBuffer' = [createVertexBuffer(g.minor) EXCEPT !.destroyed = replacing]
      /\ liveVertexBuffers' = IF replacing THEN liveVertexBuffers
                              ELSE liveVertexBuffers + 2
      /\ bufferUpdates' = bufferUpdates + 1

\* generateGridVertices(); destroy() on the buffers the two variables hold, if any;
\* then a new buffer for each array
updateVertexBuffers(cv, pan, zoom) ==
  LET g == generateGridVertices(cv, pan, zoom)
  IN  /\ majorLineVertices' = g.major
      /\ minorLineVertices' = g.minor
      /\ majorVertexBuffer' = createVertexBuffer(g.major)
      /\ minorVertexBuffer' = createVertexBuffer(g.minor)
      /\ liveVertexBuffers' = liveVertexBuffers - Alive(majorVertexBuffer)
                                - Alive(minorVertexBuffer) + 2
      /\ bufferUpdates' = bufferUpdates + 1

\* currentZoom *= zoomFactor; Math.max(0.05, Math.min(currentZoom, 20.0))
zoomFactor(deltaY) == IF deltaY < 0 THEN <<11, 10>> ELSE <<9, 10>>
\* clampZoom without its upper limit
clampZoomNoMax(zoom) == MathMax(<<1, 20>>, zoom)
clampZoom(zoom) == MathMax(zoomMin, MathMin(zoom, zoomMax))
wheelZoom(zoom, deltaY) == clampZoom(Mul(zoom, zoomFactor(deltaY)))

\* the inverse that divides by the base cell size alone
logicalMouseNoZoom(mouse, size, pan, oldZoom) ==
  Div(Sub(mouse, Add(Div(R(size), R(2)), pan)), R(50))

\* logical coordinate of a canvas pixel under the zoom before the event
logicalMouse(mouse, size, pan, oldZoom) ==
  Div(Sub(mouse, gridOriginPixels(size, pan)), Mul(R(baseCellSize), oldZoom))

\* a mousemove as the page's history records it: the last position of the drag
observeMove(clientX, clientY) ==
  IF observed.lastPanEvent = "mousedown"
  THEN [observed EXCEPT !.dragLast = [x |-> clientX, y |-> clientY]]
  ELSE observed

\* a wheel listener that leaves the pan offset alone: the zoom is about the grid origin
wheelPanKeep(mouse, size, pan, oldZoom, newZoom) == pan

\* the pan offset that keeps that logical point under the cursor
wheelPan(mouse, size, pan, oldZoom, newZoom) ==
  Sub(Sub(mouse, Div(R(size), R(2))),
      Mul(logicalMouse(mouse, size, pan, oldZoom), Mul(R(baseCellSize), newZoom)))

Running(e) == entry = e /\ pc = "running"

wheel(deltaY, clientX, clientY) ==
  /\ Running("grid2d_panzoom")
  /\ events < MaxEvents
  /\ LET oldZoom == currentZoom
         newZoom == wheelZoom(currentZoom, deltaY)
         mouseX  == R(clientX - rect[1])
         mouseY  == R(clientY - rect[2])
         newPan  == [x |-> wheelPan(mouseX, canvas[1], panOffset.x, oldZoom, newZoom),
                     y |-> wheelPan(mouseY, canvas[2], panOffset.y, oldZoom, newZoom)]
     IN  /\ currentZoom' = newZoom
         /\ panOffset' = newPan
         /\ updateVertexBuffers(canvas, newPan, newZoom)
  /\ lastEvent' = [type |-> "wheel", deltaY |-> deltaY, x |-> clientX, y |-> clientY]
  /\ events' = events + 1
  /\ observed' = [observed EXCEPT !.dragClean = FALSE]
  /\ UNCHANGED <<startupVars, canvas, rect, isPanning, lastMousePos, rafPending,
                 lastSubmit, selectVars, probe, compute>>

\* a mousedown listener without the test of event.button
mousedownAnyButton(button, clientX, clientY) ==
  /\ entry = "grid2d_panzoom" /\ pc = "running"
  /\ isPanning' = TRUE
  /\ lastMousePos' = [x |-> clientX, y |-> clientY]
  /\ observed' = IF button = 0
                 THEN [observed EXCEPT !.lastPanEvent = "mousedown",
                                       !.dragPos = [x |-> clientX, y |-> clientY],
                                       !.dragLast = [x |-> clientX, y |-> clientY],
                                       !.dragPan = panOffset,
                                       !.dragClean = TRUE]
                 ELSE observed
  /\ UNCHANGED <<startupVars, canvas, rect, currentZoom, panOffset, majorLineVertices,
                 minorLineVertices, majorVertexBuffer, minorVertexBuffer,
                 liveVertexBuffers, rafPending, lastSubmit, selectVars, lastEvent,
                 events, probe, bufferUpdates, compute>>

mousedown(button, clientX, clientY) ==
  /\ Running("grid2d_panzoom")
  /\ IF button = 0
     THEN /\ isPanning' = TRUE
          /\ lastMousePos' = [x |-> clientX, y |-> clientY]
     ELSE UNCHANGED <<isPanning, lastMousePos>>
  /\ observed' = IF button = 0
                 THEN [observed EXCEPT !.lastPanEvent = "mousedown",
                                       !.dragPos = [x |-> clientX, y |-> clientY],
                                       !.dragLast = [x |-> clientX, y |-> clientY],
                                       !.dragPan = panOffset,
                                       !.dragClean = TRUE]
                 ELSE observed
  /\ UNCHANGED <<startupVars, canvas, rect, currentZoom, panOffset, majorLineVertices,
                 minorLineVertices, majorVertexBuffer, minorVertexBuffer,
                 liveVertexBuffers, rafPending, lastSubmit, selectVars, lastEvent,
                 events, probe, bufferUpdates, compute>>

\* the mousemove listener without its call of updateVertexBuffers()
mousemoveNoUpdate(clientX, clientY) ==
  /\ entry = "grid2d_panzoom" /\ pc = "running"
  /\ events < MaxEvents
  /\ IF isPanning
     THEN /\ panOffset' = [x |-> Add(panOffset.x, R(clientX - lastMousePos.x)),
                           y |-> Add(panOffset.y, R(clientY - lastMousePos.y))]
          /\ lastMousePos' = [x |-> clientX, y |-> clientY]
     ELSE UNCHANGED <<panOffset, lastMousePos>>
  /\ lastEvent' = [type |-> "mousemove"]
  /\ events' = events + 1
  /\ observed' = observeMove(clientX, clientY)
  /\ UNCHANGED <<startupVars, canvas, rect, currentZoom, majorLineVertices,
                 minorLineVertices, majorVertexBuffer, minorVertexBuffer,
                 liveVertexBuffers, isPanning, rafPending, lastSubmit, selectVars,
                 probe, bufferUpdates, compute>>

\* the mousemove listener without "lastMousePos = {x: event.clientX, y: event.clientY}"
mousemoveKeepLast(clientX, clientY) ==
  /\ entry = "grid2d_panzoom" /\ pc = "running"
  /\ events < MaxEvents
  /\ IF isPanning
     THEN LET newPan == [x |-> Add(panOffset.x, R(clientX - lastMousePos.x)),
                         y |-> Add(panOffset.y, R(clientY - lastMousePos.y))]
          IN  /\ panOffset' = newPan
              /\ updateVertexBuffers(canvas, newPan, currentZoom)
     ELSE UNCHANGED <<panOffset, majorLineVertices, minorLineVertices,
                      majorVertexBuffer, minorVertexBuffer, liveVertexBuffers,
                      bufferUpdates>>
  /\ lastEvent' = [type |-> "mousemove"]
  /\ events' = events + 1
  /\ observed' = observeMove(clientX, clientY)
  /\ UNCHANGED <<startupVars, canvas, rect, currentZoom, isPanning, lastMousePos,
                 rafPending, lastSubmit, selectVars, probe, compute>>

mousemove(clientX, clientY) ==
  /\ Running("grid2d_panzoom")
  /\ events < MaxEvents
  /\ IF isPanning
     THEN LET dx == clientX - lastMousePos.x
              dy == clientY - lastMousePos.y
              newPan == [x |-> Add(panOffset.x, R(dx)), y |-> Add(panOffset.y, R(dy))]
          IN  /\ panOffset' = newPan
              /\ lastMousePos' = [x |-> clientX, y |-> clientY]
              /\ updateVertexBuffers(canvas, newPan, currentZoom)
     ELSE UNCHANGED <<panOffset, lastMousePos, majorLineVertices, minorLineVertices,
                      majorVertexBuffer, minorVertexBuffer, liveVertexBuffers,
                      bufferUpdates>>
  /\ lastEvent' = [type |-> "mousemove"]
  /\ events' = events + 1
  /\ observed' = observeMove(clientX, clientY)
  /\ UNCHANGED <<startupVars, canvas, rect, currentZoom, isPanning, rafPending,
                 lastSubmit, selectVars, probe, compute>>

\* mouseup and mouseleave
stopPanning(type) ==
  /\ Running("grid2d_panzoom")
  /\ type \in {"mouseup", "mouseleave"}
  /\ isPanning' = FALSE
  /\ observed' = [observed EXCEPT !.lastPanEvent = type]
  /\ UNCHANGED <<startupVars, canvas, rect, currentZoom, panOffset, majorLineVertices,
                 minorLineVertices, majorVertexBuffer, minorVertexBuffer,
                 liveVertexBuffers, lastMousePos, rafPending, lastSubmit, selectVars,
                 lastEvent, events, probe, bufferUpdates, compute>>

mouseup == stopPanning("mouseup")
mouseleave == stopPanning("mouseleave")

\* The values frame() uploads to the uniform buffer (after the colour)
uniformValues(cv, pan, zoom) ==
  [scale_factor_xy |-> <<effectiveCellSize(zoom), effectiveCellSize(zoom)>>,
   grid_origin_pixels_xy |-> <<gridOriginPixels(cv[1], pan.x), gridOriginPixels(cv[2], pan.y)>>,
   viewport_size_xy |-> <<R(cv[1]), R(cv[2])>>]

\* vs_main: pixel_pos = logical_pos * scale_factor_xy + grid_origin_pixels_xy
pixel_pos(logical_pos, u) ==
  <<Add(Mul(logical_pos[1], u.scale_factor_xy[1]), u.grid_origin_pixels_xy[1]),
    Add(Mul(logical_pos[2], u.scale_factor_xy[2]), u.grid_origin_pixels_xy[2])>>

\* vs_main: pixel position to normalised device coordinates
\*   ndc_x = (pixel_pos.x / viewport_size_xy.x) * 2.0 - 1.0
\*   ndc_y = (1.0 - (pixel_pos.y / viewport_size_xy.y)) * 2.0
ndc(pixel, u) ==
  <<Sub(Mul(Div(pixel[1], u.viewport_size_xy[1]), R(2)), R(1)),
    Mul(Sub(R(1), Div(pixel[2], u.viewport_size_xy[2])), R(2))>>

vs_main(logical_pos, u) == ndc(pixel_pos(logical_pos, u), u)

majorLineColor == <<<<1, 2>>, <<1, 2>>, <<1, 2>>, <<1, 1>>>>      \* [0.5, 0.5, 0.5, 1.0]
minorLineColor == <<<<3, 10>>, <<3, 10>>, <<3, 10>>, <<1, 1>>>>   \* [0.3, 0.3, 0.3, 1.0]

\* nothing has been submitted yet
NoSubmit == [submitted |-> FALSE]

\* the uniform buffer as device.createBuffer leaves it: zeroed
zeroUniforms ==
  [line_color |-> <<R(0), R(0), R(0), R(0)>>,
   scale_factor_xy |-> <<R(0), R(0)>>,
   grid_origin_pixels_xy |-> <<R(0), R(0)>>,
   viewport_size_xy |-> <<R(0), R(0)>>]

\* uniformValues.set(color, 0): the Float32Array frame() hands to queue.writeBuffer
uniformData(color, cv, pan, zoom) ==
  LET u == uniformValues(cv, pan, zoom)
  IN  [line_color |-> color,
       scale_factor_xy |-> u.scale_factor_xy,
       grid_origin_pixels_xy |-> u.grid_origin_pixels_xy,
       viewport_size_xy |-> u.viewport_size_xy]

\* the queue.writeBuffer(uniformBuffer, 0, ...) calls of one frame(), in order: one
\* before the minor draw is encoded, one before the major draw is encoded
uniformWrites(cv, pan, zoom, minor, major) ==
  (IF Len(minor) > 0 THEN <<uniformData(minorLineColor, cv, pan, zoom)>> ELSE <<>>)
  \o (IF Len(major) > 0 THEN <<uniformData(majorLineColor, cv, pan, zoom)>> ELSE <<>>)

\* The uniform buffer when the submitted command buffer executes. queue.writeBuffer
\* takes effect on the queue timeline when it is called, and frame() calls
\* queue.submit after all its writes: the pass reads what the last write left
uniformAtSubmit(writes, previous) ==
  IF Len(writes) > 0 THEN writes[Len(writes)] ELSE previous

\* One draw of frame(): setVertexBuffer(0, buffer); draw(vertices.length / 2).
\* "written" is the colour handed to writeBuffer just before the draw was encoded
drawCall(color, buffer, vertices) ==
  LET vertexCount == Len(vertices) \div 2
      floats == IF 2 * vertexCount < Len(buffer.data) THEN 2 * vertexCount
                ELSE Len(buffer.data)
  IN  [written |-> color, vertexCount |-> vertexCount,
       bufferFloats |-> buffer.size \div 4, bufferDestroyed |-> buffer.destroyed,
       vertices |-> SubSeq(buffer.data, 1, floats)]

\* a frame() that returns without calling requestAnimationFrame(frame)
frameNoReschedule ==
  /\ Running("grid2d_panzoom")
  /\ rafPending > 0
  /\ lastSubmit' =
       [submitted |-> TRUE,
        uniforms |-> uniformAtSubmit(
                       uniformWrites(canvas, panOffset, currentZoom,
                                     minorLineVertices, majorLineVertices),
                       IF lastSubmit.submitted THEN lastSubmit.uniforms ELSE zeroUniforms),
        draws |-> (IF Len(minorLineVertices) > 0
                   THEN <<drawCall(minorLineColor, minorVertexBuffer, minorLineVertices)>>
                   ELSE <<>>)
                  \o (IF Len(majorLineVertices) > 0
                      THEN <<drawCall(majorLineColor, majorVertexBuffer, majorLineVertices)>>
                      ELSE <<>>)]
  /\ rendered' = TRUE
  /\ rafPending' = rafPending - 1
  /\ UNCHANGED <<entry, gpu, pc, adapter, device, adapterRequests, alerts, consoleErrors,
                 uncaught, configured, resources, canvas, rect, currentZoom, panOffset,
                 majorLineVertices, minorLineVertices, majorVertexBuffer,
                 minorVertexBuffer, liveVertexBuffers, isPanning, lastMousePos,
                 selectVars, lastEvent, events, probe, observed, bufferUpdates, compute>>

frame ==
  /\ Running("grid2d_panzoom")
  /\ rafPending > 0
  /\ lastSubmit' =
       [submitted |-> TRUE,
        uniforms |-> uniformAtSubmit(
                       uniformWrites(canvas, panOffset, currentZoom,
                                     minorLineVertices, majorLineVertices),
                       IF lastSubmit.submitted THEN lastSubmit.uniforms ELSE zeroUniforms),
        draws |-> (IF Len(minorLineVertices) > 0
                   THEN <<drawCall(minorLineColor, minorVertexBuffer, minorLineVertices)>>
                   ELSE <<>>)
                  \o (IF Len(majorLineVertices) > 0
                      THEN <<drawCall(majorLineColor, majorVertexBuffer, majorLineVertices)>>
                      ELSE <<>>)]
  /\ rendered' = TRUE
  /\ rafPending' = (rafPending - 1) + 1
  /\ UNCHANGED <<entry, gpu, pc, adapter, device, adapterRequests, alerts, consoleErrors,
                 uncaught, configured, resources, canvas, rect, currentZoom, panOffset,
                 majorLineVertices, minorLineVertices, majorVertexBuffer,
                 minorVertexBuffer, liveVertexBuffers, isPanning, lastMousePos,
                 selectVars, lastEvent, events, probe, observed, bufferUpdates, compute>>

\* Math.floor(contentBoxSize) without Math.max(1, ...)
observedSizeNoMax(box) == MathFloor(box)

\* Math.max(1, Math.floor(contentBoxSize))
observedSize(box) == IF MathFloor(box) > 1 THEN MathFloor(box) ELSE 1

resizeGrid(inlineSize, blockSize) ==
  /\ Running("grid2d_panzoom")
  /\ events < MaxEvents
  /\ LET newWidth  == observedSize(inlineSize)
         newHeight == observedSize(blockSize)
     IN  IF canvas[1] # newWidth \/ canvas[2] # newHeight
         THEN /\ canvas' = <<newWidth, newHeight>>
              /\ configured' = TRUE
              /\ observed' = [observed EXCEPT !.reconfigures = @ + 1]
              /\ updateVertexBuffers(<<newWidth, newHeight>>, panOffset, currentZoom)
         ELSE UNCHANGED <<canvas, configured, majorLineVertices, minorLineVertices,
                          majorVertexBuffer, minorVertexBuffer, liveVertexBuffers,
                          bufferUpdates, observed>>
  /\ lastEvent' = [type |-> "resize", inlineSize |-> inlineSize, blockSize |-> blockSize]
  /\ events' = events + 1
  /\ UNCHANGED <<entry, gpu, pc, adapter, device, adapterRequests, alerts, consoleErrors,
                 uncaught, resources, rendered, rect, currentZoom, panOffset, isPanning,
                 lastMousePos, rafPending, lastSubmit, selectVars, probe, compute>>

(* ------------------------------------------------------------------ *)
(* Selectable-cell grid (grid2d.js, second initGrid2d)                 *)
(* ------------------------------------------------------------------ *)

gridSize == 10

scaleMin == <<1, 10>>    \* 0.1
scaleMax == <<5, 1>>     \* 5.0

\* scale += e.deltaY * -0.001 * zoomSpeed; Math.max(0.1, Math.min(scale, 5.0))
wheelScale(s, deltaY) ==
  MathMax(scaleMin,
          MathMin(Add(s, Mul(Mul(R(deltaY), <<-1, 1000>>), <<1, 10>>)), scaleMax))

wheelSelect(deltaY) ==
  /\ Running("grid2d_select")
  /\ events < MaxEvents
  /\ scale' = wheelScale(scale, deltaY)
  /\ lastEvent' = [type |-> "wheel", deltaY |-> deltaY]
  /\ events' = events + 1
  /\ observed' = [observed EXCEPT !.clickRun = 0, !.clickIndex = 0, !.clickBefore = {}]
  /\ UNCHANGED <<startupVars, canvas, rect, gridVars, cameraPos, selectedCells,
                 probe, bufferUpdates, compute>>

\* (Math.min(canvas.width, canvas.height) / gridSize) * scale
cellSize(cv, s) ==
  Mul(Div(R(IF cv[1] < cv[2] THEN cv[1] ELSE cv[2]), R(gridSize)), s)

\* Math.floor((mouse - cameraPos) / cellSize)
gridCoord(mouse, camera, cv, s) == MathFloor(Div(Sub(R(mouse), camera), cellSize(cv, s)))

\* row and column exchanged
cellIndexTransposed(mouseX, mouseY, camera, cv, s) ==
  MathFloor(Div(Sub(R(mouseX), camera.x), Mul(Div(R(IF cv[1] < cv[2] THEN cv[1] ELSE cv[2]), R(10)), s))) * 10
  + MathFloor(Div(Sub(R(mouseY), camera.y), Mul(Div(R(IF cv[1] < cv[2] THEN cv[1] ELSE cv[2]), R(10)), s)))

cellIndex(mouseX, mouseY, camera, cv, s) ==
  gridCoord(mouseY, camera.y, cv, s) * gridSize + gridCoord(mouseX, camera.x, cv, s)

\* a listener that only ever adds the index
toggleAddOnly(cells, index) == cells \cup {index}

\* the click as the page saw it: the index it computed, the selection it found, and
\* how many clicks have come in a row
observeClick(index) ==
  [observed EXCEPT !.clickRun = @ + 1, !.clickIndex = index,
                   !.clickBefore = selectedCells]

toggle(cells, index) ==
  IF index \in cells THEN cells \ {index} ELSE cells \cup {index}

\* a click listener that ignores a click outside the gridSize x gridSize cells
clickValidated(clientX, clientY) ==
  /\ entry = "grid2d_select" /\ pc = "running"
  /\ events < MaxEvents
  /\ LET col == gridCoord(clientX - rect[1], cameraPos.x, canvas, scale)
         row == gridCoord(clientY - rect[2], cameraPos.y, canvas, scale)
     IN  selectedCells' = IF col \in 0..9 /\ row \in 0..9
                          THEN toggle(selectedCells, row * 10 + col)
                          ELSE selectedCells
  /\ observed' = observeClick(cellIndex(clientX - rect[1], clientY - rect[2],
                                        cameraPos, canvas, scale))
  /\ lastEvent' = [type |-> "click", x |-> clientX, y |-> clientY]
  /\ events' = events + 1
  /\ UNCHANGED <<startupVars, canvas, rect, gridVars, scale, cameraPos, probe,
                 bufferUpdates, compute>>

click(clientX, clientY) ==
  /\ Running("grid2d_select")
  /\ events < MaxEvents
  /\ LET mouseX == clientX - rect[1]
         mouseY == clientY - rect[2]
     IN  /\ selectedCells' = toggle(selectedCells,
                                    cellIndex(mouseX, mouseY, cameraPos, canvas, scale))
         /\ observed' = observeClick(cellIndex(mouseX, mouseY, cameraPos, canvas, scale))
  /\ lastEvent' = [type |-> "click", x |-> clientX, y |-> clientY]
  /\ events' = events + 1
  /\ UNCHANGED <<startupVars, canvas, rect, gridVars, scale, cameraPos,
                 probe, bufferUpdates, compute>>

\* fragmentMain paints the instance whose index is 42 red and every other one grey
redCells == {i \in 0..(gridSize * gridSize - 1) : i = 42}

renderSubmit ==
  [submitted |-> TRUE,
   uniformData |-> <<R(gridSize), scale, cameraPos.x, cameraPos.y>>,
   instances |-> gridSize * gridSize,
   red |-> redCells]

render ==
  /\ Running("grid2d_select")
  /\ rafPending > 0
  /\ lastSubmit' = renderSubmit
  /\ rendered' = TRUE
  /\ rafPending' = (rafPending - 1) + 1
  /\ UNCHANGED <<entry, gpu, pc, adapter, device, adapterRequests, alerts, consoleErrors,
                 uncaught, configured, resources, canvas, rect, currentZoom, panOffset,
                 majorLineVertices, minorLineVertices, majorVertexBuffer,
                 minorVertexBuffer, liveVertexBuffers, isPanning, lastMousePos,
                 selectVars, lastEvent, events, probe, observed, bufferUpdates, compute>>

(* ------------------------------------------------------------------ *)
(* Start-up of the entry points                                        *)
(* ------------------------------------------------------------------ *)

\* "main_old" is the earlier main.js kept as src/unnamed/part_001, lines 1-208
Entries == {"minor_main", "mainUseUniform", "grid2d_panzoom", "grid2d_select",
            "testDraw", "main_js", "main_old"}

\* what a resolved requestAdapter() / requestDevice() can hold
Outcomes == {"null", "ok"}

pageVars == <<canvas, rect, gridVars, selectVars, lastEvent, events,
              probe, observed, bufferUpdates, compute>>

\* const adapter = await navigator.gpu?.requestAdapter();
optionalRequestAdapter ==
  /\ entry \in {"minor_main", "mainUseUniform"}
  /\ pc = "start"
  /\ IF gpu
     THEN /\ \E a \in Outcomes : adapter' = a
          /\ adapterRequests' = adapterRequests + 1
     ELSE /\ adapter' = Undefined
          /\ UNCHANGED adapterRequests
  /\ pc' = "hasAdapter"
  /\ UNCHANGED <<entry, gpu, device, alerts, consoleErrors, uncaught, configured,
                 resources, rendered, pageVars>>

\* const device = await adapter?.requestDevice();
optionalRequestDevice ==
  /\ entry \in {"minor_main", "mainUseUniform"}
  /\ pc = "hasAdapter"
  /\ IF adapter = "ok"
     THEN \E d \in Outcomes : device' = d
     ELSE device' = Undefined
  /\ pc' = "hasDevice"
  /\ UNCHANGED <<entry, gpu, adapter, adapterRequests, alerts, consoleErrors, uncaught,
                 configured, resources, rendered, pageVars>>

\* function fail(msg) { alert(msg); }
fail == alerts' = alerts + 1

\* GPU objects main() of minor.js and mainUseUniform() create before they return
triangleResources(e) == IF e = "minor_main" THEN 4 ELSE 2 + 100 * 3

\* the start-up without the "return" after fail()
triangleSetupNoReturn ==
  /\ entry \in {"minor_main", "mainUseUniform"}
  /\ pc = "hasDevice"
  /\ IF device = "ok" THEN UNCHANGED alerts ELSE alerts' = alerts + 1
  /\ configured' = TRUE
  /\ resources' = resources + 4
  /\ pc' = "running"
  /\ UNCHANGED <<entry, gpu, adapter, device, adapterRequests, consoleErrors, uncaught,
                 rendered, canvas, rect, gridVars, selectVars, lastEvent, events,
                 probe, observed, bufferUpdates, compute>>

\* if (!device) { fail(...); return; } and the rest of the function
triangleSetup ==
  /\ entry \in {"minor_main", "mainUseUniform"}
  /\ pc = "hasDevice"
  /\ IF device = "ok"
     THEN /\ configured' = TRUE
          /\ resources' = resources + triangleResources(entry)
          /\ pc' = "running"
          /\ UNCHANGED alerts
     ELSE /\ fail
          /\ pc' = "returned"
          /\ UNCHANGED <<configured, resources>>
  /\ UNCHANGED <<entry, gpu, adapter, device, adapterRequests, consoleErrors, uncaught,
                 rendered, pageVars>>

\* const adapter = await navigator.gpu.requestAdapter();  (testDraw.js throws an
\* Error itself when navigator.gpu is missing): the async function's promise is
\* rejected and nothing handles the rejection
plainRequestAdapter ==
  /\ entry \in {"grid2d_panzoom", "grid2d_select", "testDraw"}
  /\ pc = "start"
  /\ IF gpu
     THEN /\ \E a \in Outcomes : adapter' = a
          /\ adapterRequests' = adapterRequests + 1
          /\ pc' = "hasAdapter"
          /\ UNCHANGED uncaught
     ELSE /\ uncaught' = TRUE
          /\ pc' = "rejected"
          /\ UNCHANGED <<adapter, adapterRequests>>
  /\ UNCHANGED <<entry, gpu, device, alerts, consoleErrors, configured, resources,
                 rendered, pageVars>>

\* const device = await adapter.requestDevice();  a TypeError when adapter is null
plainRequestDevice ==
  /\ entry \in {"grid2d_panzoom", "grid2d_select", "testDraw"}
  /\ pc = "hasAdapter"
  /\ IF adapter = "ok"
     THEN /\ \E d \in Outcomes : device' = d
          /\ pc' = "hasDevice"
          /\ UNCHANGED uncaught
     ELSE /\ uncaught' = TRUE
          /\ pc' = "rejected"
          /\ UNCHANGED device
  /\ UNCHANGED <<entry, gpu, adapter, adapterRequests, alerts, consoleErrors, configured,
                 resources, rendered, pageVars>>

\* context.configure({device}) with no device throws a TypeError
configureThrows ==
  /\ entry \in {"grid2d_panzoom", "grid2d_select", "testDraw"}
  /\ pc = "hasDevice"
  /\ device # "ok"
  /\ uncaught' = TRUE
  /\ pc' = "rejected"
  /\ UNCHANGED <<entry, gpu, adapter, device, adapterRequests, alerts, consoleErrors,
                 configured, resources, rendered, pageVars>>

\* initGrid2d (pan/zoom), from context.configure to requestAnimationFrame(frame)
gridPanzoomSetup ==
  /\ entry = "grid2d_panzoom"
  /\ pc = "hasDevice"
  /\ device = "ok"
  /\ configured' = TRUE
  /\ resources' = resources + 4
  /\ updateVertexBuffers(canvas, panOffset, currentZoom)
  /\ rafPending' = rafPending + 1
  /\ pc' = "running"
  /\ UNCHANGED <<entry, gpu, adapter, device, adapterRequests, alerts, consoleErrors,
                 uncaught, rendered, canvas, rect, currentZoom, panOffset, isPanning,
                 lastMousePos, lastSubmit, selectVars, lastEvent, events, probe,
                 observed, compute>>

\* initGrid2d (selectable cells), from context.configure to the first render()
gridSelectSetup ==
  /\ entry = "grid2d_select"
  /\ pc = "hasDevice"
  /\ device = "ok"
  /\ configured' = TRUE
  /\ resources' = resources + 5
  /\ lastSubmit' = renderSubmit
  /\ rendered' = TRUE
  /\ rafPending' = rafPending + 1
  /\ pc' = "running"
  /\ UNCHANGED <<entry, gpu, adapter, device, adapterRequests, alerts, consoleErrors,
                 uncaught, canvas, rect, currentZoom, panOffset, majorLineVertices,
                 minorLineVertices, majorVertexBuffer, minorVertexBuffer,
                 liveVertexBuffers, isPanning, lastMousePos, selectVars, lastEvent,
                 events, probe, observed, bufferUpdates, compute>>

\* renderGrid of testDraw.js: the canvas takes its display size, one frame is submitted
renderGrid(created, displayWidth, displayHeight) ==
  /\ canvas' = <<displayWidth, displayHeight>>
  /\ resources' = IF created < MaxResources THEN created + 1 ELSE created
  /\ rendered' = TRUE

\* main() of testDraw.js after initWebGPU() has resolved
testDrawSetup(displayWidth, displayHeight) ==
  /\ entry = "testDraw"
  /\ pc = "hasDevice"
  /\ device = "ok"
  /\ configured' = TRUE
  /\ renderGrid(resources + 4, displayWidth, displayHeight)
  /\ pc' = "running"
  /\ UNCHANGED <<entry, gpu, adapter, device, adapterRequests, alerts, consoleErrors,
                 uncaught, rect, gridVars, selectVars, lastEvent, events,
                 probe, observed, bufferUpdates, compute>>

\* window 'resize' listener of testDraw.js
testDrawResize(displayWidth, displayHeight) ==
  /\ Running("testDraw")
  /\ renderGrid(resources, displayWidth, displayHeight)
  /\ lastEvent' = [type |-> "resize", width |-> displayWidth, height |-> displayHeight]
  /\ UNCHANGED <<entry, gpu, pc, adapter, device, adapterRequests, alerts, consoleErrors,
                 uncaught, configured, rect, gridVars, selectVars, events,
                 probe, observed, bufferUpdates, compute>>

maxTextureDimension2D == 8192

\* canvas.width = Math.max(1, Math.min(size, device.limits.maxTextureDimension2D));
\* the attribute is an unsigned long, so the assignment drops the fraction
clampedDimension(size) ==
  MathFloor(MathMax(R(1), MathMin(size, R(maxTextureDimension2D))))

\* ResizeObserver callback of main() of minor.js and of mainUseUniform(); render()
\* of mainUseUniform reads the undeclared changingUnitSize and throws before it submits
triangleResize(width, height) ==
  /\ entry \in {"minor_main", "mainUseUniform"}
  /\ pc = "running"
  /\ canvas' = <<clampedDimension(width), clampedDimension(height)>>
  /\ IF entry = "minor_main"
     THEN rendered' = TRUE /\ UNCHANGED uncaught
     ELSE uncaught' = TRUE /\ UNCHANGED rendered
  /\ lastEvent' = [type |-> "resize", inlineSize |-> width, blockSize |-> height]
  /\ UNCHANGED <<entry, gpu, pc, adapter, device, adapterRequests, alerts, consoleErrors,
                 configured, resources, rect, gridVars, selectVars, events,
                 probe, observed, bufferUpdates, compute>>

\* main.js, module evaluation: getDevice() runs to its first await (or throws, which
\* .catch reports with console.error), then line 72 calls device.createShaderModule
\* while device is null: a TypeError that ends the module's evaluation
mainJsModuleEval ==
  /\ entry = "main_js"
  /\ pc = "start"
  /\ IF gpu
     THEN /\ \E a \in Outcomes : adapter' = a
          /\ adapterRequests' = adapterRequests + 1
          /\ pc' = "hasAdapter"
          /\ UNCHANGED consoleErrors
     ELSE /\ consoleErrors' = consoleErrors + 1
          /\ pc' = "caught"
          /\ UNCHANGED <<adapter, adapterRequests>>
  /\ uncaught' = TRUE
  /\ observed' = [observed EXCEPT !.nullDeviceCalls = @ + 1]
  /\ UNCHANGED <<entry, gpu, device, alerts, configured, resources, rendered, canvas,
                 rect, gridVars, selectVars, lastEvent, events, probe, bufferUpdates,
                 compute>>

\* getDevice() after the await: if (!adapter) throw ...; return adapter.requestDevice()
mainJsGetDevice ==
  /\ entry \in {"main_js", "main_old"}
  /\ pc = "hasAdapter"
  /\ IF adapter = "ok"
     THEN /\ pc' = "hasDevice"
          /\ UNCHANGED consoleErrors
     ELSE /\ consoleErrors' = consoleErrors + 1
          /\ pc' = "caught"
  /\ UNCHANGED <<entry, gpu, adapter, device, adapterRequests, alerts, uncaught,
                 configured, resources, rendered, pageVars>>

\* The .then callback: device = loadedDevice; setContextConfig(); initModule();
\* initComputedModule(); initRenderPipeline() reads vsModule, which line 72 left
\* uninitialised: a ReferenceError, reported by .catch with console.error
mainJsThen ==
  /\ entry = "main_js"
  /\ pc = "hasDevice"
  /\ \E d \in Outcomes :
       /\ device' = d
       /\ IF d = "ok"
          THEN /\ configured' = TRUE
               /\ resources' = resources + 2
          ELSE UNCHANGED <<configured, resources>>
  /\ consoleErrors' = consoleErrors + 1
  /\ pc' = "caught"
  /\ UNCHANGED <<entry, gpu, adapter, adapterRequests, alerts, uncaught, rendered,
                 pageVars>>

(* ------------------------------------------------------------------ *)
(* The doubling compute example (renderCompute)                        *)
(* ------------------------------------------------------------------ *)

\* const input = new Float32Array([1, 3, 5]);
input == <<1, 3, 5>>

\* computeSomething: data[i] = data[i] * 2.0, for global_invocation_id.x = i
computeSomething(data, i) == [data EXCEPT ![i + 1] = data[i + 1] * 2]

\* the copy encoded before the compute pass
encodedCommandsCopyFirst == <<"copyBufferToBuffer", "dispatchWorkgroups">>

\* what renderCompute() encodes into its command buffer, in order: the compute pass
\* with dispatchWorkgroups(input.length), then copyBufferToBuffer(work -> result)
encodedCommands == <<"dispatchWorkgroups", "copyBufferToBuffer">>

\* resultBuffer.getMappedRange(): an ArrayBuffer that unmap() detaches
getMappedRange(buffer) == [data |-> buffer, detachable |-> TRUE]
\* ArrayBuffer.prototype.slice(): a copy of its own
slice(range) == [data |-> range.data, detachable |-> FALSE]
\* what an array built on the range holds once resultBuffer.unmap() has run
unmap(array) == IF array.detachable THEN <<>> ELSE array.data

\* renderCompute() up to "await resultBuffer.mapAsync(...)": two zeroed buffers, the
\* write of the input and the submitted command buffer on the queue
renderComputeSubmit ==
  [workBuffer |-> [k \in 1..Len(input) |-> 0],
   resultBuffer |-> [k \in 1..Len(input) |-> 0],
   queue |-> <<"writeBuffer">> \o encodedCommands,
   invocations |-> {},
   mapState |-> "pending", read |-> FALSE, result |-> <<>>]

\* module evaluation of the earlier main.js: getDevice() runs to its first await, or
\* throws because navigator.gpu is missing, which .catch reports
mainOldModuleEval ==
  /\ entry = "main_old"
  /\ pc = "start"
  /\ IF gpu
     THEN /\ \E a \in Outcomes : adapter' = a
          /\ adapterRequests' = adapterRequests + 1
          /\ pc' = "hasAdapter"
          /\ UNCHANGED consoleErrors
     ELSE /\ consoleErrors' = consoleErrors + 1
          /\ pc' = "caught"
          /\ UNCHANGED <<adapter, adapterRequests>>
  /\ UNCHANGED <<entry, gpu, device, alerts, uncaught, configured, resources, rendered,
                 pageVars>>

\* The .then callback of the earlier main.js: the context is configured, the modules
\* and pipelines are created, render() submits a frame and renderCompute() runs to
\* its await; without a device context.configure throws and .catch reports it
mainOldThen ==
  /\ entry = "main_old"
  /\ pc = "hasDevice"
  /\ \E d \in Outcomes :
       /\ device' = d
       /\ IF d = "ok"
          THEN /\ configured' = TRUE
               /\ resources' = resources + 7
               /\ rendered' = TRUE
               /\ compute' = renderComputeSubmit
               /\ pc' = "awaitMap"
               /\ UNCHANGED consoleErrors
          ELSE /\ consoleErrors' = consoleErrors + 1
               /\ pc' = "caught"
               /\ UNCHANGED <<configured, resources, rendered, compute>>
  /\ UNCHANGED <<entry, gpu, adapter, adapterRequests, alerts, uncaught, canvas, rect,
                 gridVars, selectVars, lastEvent, events, probe, observed,
                 bufferUpdates>>

\* The queue executes its next operation, once the invocations of a dispatch have
\* all finished: the write of the input, the dispatch (one invocation per element),
\* or the copy of the work buffer into the result buffer
gpuExecuteCommand ==
  /\ entry = "main_old"
  /\ compute.invocations = {}
  /\ Len(compute.queue) > 0
  /\ LET op == Head(compute.queue)
         rest == Tail(compute.queue)
     IN  compute' =
           IF op = "writeBuffer"
           THEN [compute EXCEPT !.queue = rest, !.workBuffer = input]
           ELSE IF op = "dispatchWorkgroups"
           THEN [compute EXCEPT !.queue = rest, !.invocations = 0..(Len(input) - 1)]
           ELSE [compute EXCEPT !.queue = rest, !.resultBuffer = compute.workBuffer]
  /\ UNCHANGED <<startupVars, canvas, rect, gridVars, selectVars, lastEvent, events,
                 probe, observed, bufferUpdates>>

\* one invocation of the compute shader runs; the invocations run in any order
gpuInvocation ==
  /\ entry = "main_old"
  /\ \E i \in compute.invocations :
       compute' = [compute EXCEPT !.invocations = @ \ {i},
                                  !.workBuffer = computeSomething(@, i)]
  /\ UNCHANGED <<startupVars, canvas, rect, gridVars, selectVars, lastEvent, events,
                 probe, observed, bufferUpdates>>

\* the promise of mapAsync resolves once the queue has executed all that was
\* submitted before the call
mapAsyncResolve ==
  /\ entry = "main_old"
  /\ pc = "awaitMap"
  /\ compute.queue = <<>>
  /\ compute.invocations = {}
  /\ compute' = [compute EXCEPT !.mapState = "mapped"]
  /\ pc' = "mapped"
  /\ UNCHANGED <<entry, gpu, adapter, device, adapterRequests, alerts, consoleErrors,
                 uncaught, configured, resources, rendered, canvas, rect, gridVars,
                 selectVars, lastEvent, events, probe, observed, bufferUpdates>>

\* renderCompute() after the await:
\*   const result = new Float32Array(resultBuffer.getMappedRange().slice());
\*   resultBuffer.unmap();
renderComputeRead ==
  /\ entry = "main_old"
  /\ pc = "mapped"
  /\ compute' = [compute EXCEPT
                   !.result = unmap(slice(getMappedRange(compute.resultBuffer))),
                   !.mapState = "unmapped",
                   !.read = TRUE]
  /\ pc' = "returned"
  /\ UNCHANGED <<entry, gpu, adapter, device, adapterRequests, alerts, consoleErrors,
                 uncaught, configured, resources, rendered, canvas, rect, gridVars,
                 selectVars, lastEvent, events, probe, observed, bufferUpdates>>

(* ------------------------------------------------------------------ *)
(* The pages: initial states, inputs, next-state relation              *)
(* ------------------------------------------------------------------ *)

\* width and height of a <canvas> without attributes, and of a 200 x 200 one
InitialCanvas(e) == IF e = "grid2d_select" THEN {<<300, 150>>, <<200, 200>>}
                    ELSE {<<300, 150>>}

\* getBoundingClientRect() of the canvas: at the page origin, or behind the 8px margin
Rects(e) == IF e = "grid2d_select" THEN {<<0, 0>>, <<8, 8>>}
            ELSE IF e = "grid2d_panzoom" THEN {<<8, 8>>}
            ELSE {<<0, 0>>}

\* currentZoom when the page is first observed: 1.0 as constructed, or one of the two
\* values the clamp leaves after enough wheel events at the canvas centre (where
\* panOffset stays 0)
ZoomStarts(e) == IF e = "grid2d_panzoom" THEN {R(1), zoomMax, zoomMin} ELSE {R(1)}

WheelDeltas == {-100, 100}
WheelPoints == {<<40, 120>>}
MousePoints == {<<158, 83>>, <<40, 120>>}
DownPoints == {<<158, 83>>}
Buttons == {0, 2}
GridBoxes == {<<R(0), R(0)>>, <<<<201, 2>>, <<121, 2>>>>, <<R(300), R(150)>>}
SelectDeltas == {-20000, -5000, 5000, 20000}
ClickPoints == {<<25, 45>>, <<33, 53>>, <<3, -5>>, <<250, 140>>}
TriangleBoxes == {<<R(0), R(0)>>, <<<<201, 2>>, R(60)>>, <<R(9000), R(150)>>}
DisplaySizes == {<<0, 0>>, <<300, 150>>, <<640, 480>>}

\* nothing has happened on the page yet
NothingObserved ==
  [lastPanEvent |-> "none",
   dragPos |-> [x |-> 0, y |-> 0], dragPan |-> [x |-> <<0, 1>>, y |-> <<0, 1>>],
   dragLast |-> [x |-> 0, y |-> 0], dragClean |-> FALSE,
   nullDeviceCalls |-> 0, reconfigures |-> 0,
   clickRun |-> 0, clickIndex |-> 0, clickBefore |-> {}]

\* renderCompute() has not been called
NoCompute ==
  [workBuffer |-> <<>>, resultBuffer |-> <<>>, queue |-> <<>>, invocations |-> {},
   mapState |-> "unmapped", read |-> FALSE, result |-> <<>>]

\* the mapping harness is not in use on a page
NoProbe == [L |-> <<>>, ran |-> FALSE, pixel |-> <<>>, back |-> <<>>]

Init ==
  /\ entry \in Entries
  /\ gpu \in BOOLEAN
  /\ pc = "start"
  /\ adapter = Undefined
  /\ device = IF entry \in {"main_js", "main_old"} THEN "null" ELSE Undefined
  /\ adapterRequests = 0
  /\ alerts = 0
  /\ consoleErrors = 0
  /\ uncaught = FALSE
  /\ configured = FALSE
  /\ resources = 0
  /\ rendered = FALSE
  /\ canvas \in InitialCanvas(entry)
  /\ rect \in Rects(entry)
  /\ currentZoom \in ZoomStarts(entry)
  /\ panOffset = [x |-> R(0), y |-> R(0)]
  /\ majorLineVertices = <<>>
  /\ minorLineVertices = <<>>
  /\ majorVertexBuffer = NoBuffer
  /\ minorVertexBuffer = NoBuffer
  /\ liveVertexBuffers = 0
  /\ isPanning = FALSE
  /\ lastMousePos = [x |-> 0, y |-> 0]
  /\ rafPending = 0
  /\ lastSubmit = NoSubmit
  /\ scale = R(1)
  /\ cameraPos = [x |-> R(0), y |-> R(0)]
  /\ selectedCells = {}
  /\ lastEvent = [type |-> "none"]
  /\ events = 0
  /\ probe = NoProbe
  /\ observed = NothingObserved
  /\ bufferUpdates = 0
  /\ compute = NoCompute

Next ==
  \/ optionalRequestAdapter
  \/ optionalRequestDevice
  \/ triangleSetup
  \/ plainRequestAdapter
  \/ plainRequestDevice
  \/ configureThrows
  \/ gridPanzoomSetup
  \/ gridSelectSetup
  \/ \E d \in DisplaySizes : testDrawSetup(d[1], d[2])
  \/ \E d \in DisplaySizes : testDrawResize(d[1], d[2])
  \/ \E b \in TriangleBoxes : triangleResize(b[1], b[2])
  \/ mainJsModuleEval
  \/ mainJsGetDevice
  \/ mainJsThen
  \/ mainOldModuleEval
  \/ mainOldThen
  \/ gpuExecuteCommand
  \/ gpuInvocation
  \/ mapAsyncResolve
  \/ renderComputeRead
  \/ \E dy \in WheelDeltas, m \in WheelPoints : wheel(dy, m[1], m[2])
  \/ \E b \in Buttons, m \in DownPoints : mousedown(b, m[1], m[2])
  \/ \E m \in MousePoints : mousemove(m[1], m[2])
  \/ mouseup
  \/ mouseleave
  \/ frame
  \/ \E b \in GridBoxes : resizeGrid(b[1], b[2])
  \/ \E dy \in SelectDeltas : wheelSelect(dy)
  \/ \E m \in ClickPoints : click(m[1], m[2])
  \/ render

Spec == Init /\ [][Next]_vars

(* ------------------------------------------------------------------ *)
(* The coordinate mapping as pure functions of canvas, pan and zoom    *)
(* ------------------------------------------------------------------ *)

MappingCanvas == {<<1, 1>>, <<101, 60>>, <<500, 150>>}
MappingPans == {[x |-> R(0), y |-> R(0)], [x |-> R(-250), y |-> R(75)],
                [x |-> <<77, 3>>, y |-> <<-1001, 7>>]}
MappingZooms == {<<1, 50>>, <<39, 1000>>, <<1, 25>>, <<1, 20>>, R(1), <<11, 10>>, R(20)}
LogicalPoints == {<<R(0), R(0)>>, <<<<-7, 3>>, <<5, 2>>>>, <<R(13), R(-4)>>}

InitMapping ==
  /\ entry = "grid2d_panzoom"
  /\ gpu = TRUE
  /\ pc = "mapping"
  /\ adapter = "ok"
  /\ device = "ok"
  /\ adapterRequests = 1
  /\ alerts = 0
  /\ consoleErrors = 0
  /\ uncaught = FALSE
  /\ configured = TRUE
  /\ resources = 4
  /\ rendered = FALSE
  /\ canvas \in MappingCanvas
  /\ rect = <<0, 0>>
  /\ currentZoom \in MappingZooms
  /\ panOffset \in MappingPans
  /\ majorLineVertices = <<>>
  /\ minorLineVertices = <<>>
  /\ majorVertexBuffer = NoBuffer
  /\ minorVertexBuffer = NoBuffer
  /\ liveVertexBuffers = 0
  /\ isPanning = FALSE
  /\ lastMousePos = [x |-> 0, y |-> 0]
  /\ rafPending = 0
  /\ lastSubmit = NoSubmit
  /\ scale = R(1)
  /\ cameraPos = [x |-> R(0), y |-> R(0)]
  /\ selectedCells = {}
  /\ lastEvent = [type |-> "none"]
  /\ events = 0
  /\ \E L \in LogicalPoints :
       probe = [L |-> L, ran |-> FALSE, pixel |-> <<>>, back |-> <<>>]
  /\ observed = NothingObserved
  /\ bufferUpdates = 0
  /\ compute = NoCompute

\* one call of generateGridVertices()
callGenerateGridVertices ==
  /\ pc = "mapping"
  /\ ~probe.ran
  /\ LET g == generateGridVertices(canvas, panOffset, currentZoom)
     IN  /\ majorLineVertices' = g.major
         /\ minorLineVertices' = g.minor
  /\ probe' = [probe EXCEPT !.ran = TRUE]
  /\ UNCHANGED <<startupVars, canvas, rect, currentZoom, panOffset, majorVertexBuffer,
                 minorVertexBuffer, liveVertexBuffers, isPanning, lastMousePos,
                 rafPending, lastSubmit, selectVars, lastEvent, events, observed,
                 bufferUpdates, compute>>

\* vs_main on the logical point, with the uniforms frame() uploads
callVsMain ==
  /\ pc = "mapping"
  /\ probe.pixel = <<>>
  /\ probe' = [probe EXCEPT
                 !.pixel = pixel_pos(probe.L, uniformValues(canvas, panOffset, currentZoom))]
  /\ UNCHANGED <<startupVars, canvas, rect, gridVars, selectVars, lastEvent, events,
                 observed, bufferUpdates, compute>>

\* the wheel listener's logicalMouseX / logicalMouseY for that pixel
callLogicalMouse ==
  /\ pc = "mapping"
  /\ probe.pixel # <<>>
  /\ probe.back = <<>>
  /\ probe' = [probe EXCEPT
                 !.back = <<logicalMouse(probe.pixel[1], canvas[1], panOffset.x, currentZoom),
                            logicalMouse(probe.pixel[2], canvas[2], panOffset.y, currentZoom)>>]
  /\ UNCHANGED <<startupVars, canvas, rect, gridVars, selectVars, lastEvent, events,
                 observed, bufferUpdates, compute>>

NextMapping ==
  \/ callGenerateGridVertices
  \/ callVsMain
  \/ callLogicalMouse

SpecMapping == InitMapping /\ [][NextMapping]_vars

(* ------------------------------------------------------------------ *)
(* Properties                                                          *)
(* ------------------------------------------------------------------ *)

CoverSpan == 260
PickSpan == 200

\* the lines (four numbers each) a vertex array holds
Lines(vertices) ==
  {<<vertices[4 * k + 1], vertices[4 * k + 2], vertices[4 * k + 3], vertices[4 * k + 4]>> :
     k \in 0..((Len(vertices) \div 4) - 1)}

GeneratedLines == Lines(majorLineVertices) \cup Lines(minorLineVertices)
VerticalLines(S) == {l \in S : l[1] = l[3]}
HorizontalLines(S) == {l \in S : l[2] = l[4]}
\* the logical index of a line; every index is an integer
LineIndex(l) == IF l[1] = l[3] THEN l[1][1] ELSE l[2][1]
IntegerIndex(l) == IF l[1] = l[3] THEN l[1][2] = 1 ELSE l[2][2] = 1
VerticalIndices(S) == {LineIndex(l) : l \in VerticalLines(S)}
HorizontalIndices(S) == {LineIndex(l) : l \in HorizontalLines(S)}

\* baseCellSize * currentZoom < 2, on the numerator and denominator of currentZoom
BelowThreshold == baseCellSize * currentZoom[1] < 2 * currentZoom[2]

\* C1: currentZoom of the pan/zoom grid stays within [0.05, 20.0] and scale of the
\* selectable-cell grid within [0.1, 5.0], in every reachable state.
C1_ZoomClamped ==
  /\ entry = "grid2d_panzoom" =>
       /\ 20 * currentZoom[1] >= currentZoom[2]
       /\ currentZoom[1] <= 20 * currentZoom[2]
  /\ entry = "grid2d_select" =>
       /\ 10 * scale[1] >= scale[2]
       /\ scale[1] <= 5 * scale[2]

\* a wheel event that zooms in has left currentZoom at the upper limit
C1_Witness ==
  /\ Running("grid2d_panzoom")
  /\ lastEvent.type = "wheel"
  /\ lastEvent.deltaY < 0
  /\ currentZoom = <<20, 1>>

\* C2: when generateGridVertices has run with baseCellSize * currentZoom < 2, both
\* vertex arrays are empty, whatever the canvas size and the pan offset.
C2_DegenerateEmpty ==
  (probe.ran /\ BelowThreshold) =>
    (majorLineVertices = <<>> /\ minorLineVertices = <<>>)

C2_Witness ==
  /\ probe.ran
  /\ BelowThreshold
  /\ currentZoom = <<39, 1000>>
  /\ canvas = <<500, 150>>
  /\ panOffset.x = <<77, 3>>

\* C3: a generated line is in majorLineVertices exactly when its index is a multiple
\* of sectionInterval (negative indices included) and in minorLineVertices otherwise;
\* (the modulus below is the mathematical one, never negative);
\* on a 500 pixel wide canvas at zoom 1 and pan 0 the vertical lines -10, -5, 0, 5, 10
\* are major and -3, -1, 1, 3, 7 are minor.
C3_Classification ==
  probe.ran =>
    /\ \A l \in Lines(majorLineVertices) :
         IntegerIndex(l) /\ LineIndex(l) % sectionInterval = 0
    /\ \A l \in Lines(minorLineVertices) :
         IntegerIndex(l) /\ LineIndex(l) % sectionInterval # 0
    /\ (canvas = <<500, 150>> /\ currentZoom = <<1, 1>> /\ panOffset.x = <<0, 1>>) =>
         /\ {-10, -5, 0, 5, 10} \subseteq VerticalIndices(Lines(majorLineVertices))
         /\ {-3, -1, 1, 3, 7} \subseteq VerticalIndices(Lines(minorLineVertices))

C3_Witness ==
  /\ probe.ran
  /\ canvas = <<500, 150>>
  /\ currentZoom = <<1, 1>>
  /\ panOffset.x = <<0, 1>>
  /\ -10 \in VerticalIndices(Lines(majorLineVertices))
  /\ -3 \in VerticalIndices(Lines(minorLineVertices))

\* the pixel of logical index i on one axis, under the uniforms frame() uploads
PixelOfIndex(i, axis) ==
  pixel_pos(<<R(i), R(i)>>, uniformValues(canvas, panOffset, currentZoom))[axis]

\* pixel p lies in [0, size] extended by 5 cells on each side
InExtendedViewport(p, size) ==
  LET cells == Mul(R(5), effectiveCellSize(currentZoom))
  IN  Le(Neg(cells), p) /\ Le(p, Add(R(size), cells))

\* C4: with baseCellSize * currentZoom >= 2, every integer index whose pixel lies in
\* the viewport extended by 5 cells on each edge has a generated line, on both axes.
C4_Coverage ==
  (probe.ran /\ ~BelowThreshold) =>
    \A i \in -CoverSpan..CoverSpan :
      /\ InExtendedViewport(PixelOfIndex(i, 1), canvas[1])
           => i \in VerticalIndices(GeneratedLines)
      /\ InExtendedViewport(PixelOfIndex(i, 2), canvas[2])
           => i \in HorizontalIndices(GeneratedLines)

C4_Witness ==
  /\ probe.ran
  /\ ~BelowThreshold
  /\ canvas = <<500, 150>>
  /\ panOffset.x = <<-250, 1>>
  /\ currentZoom = <<1, 25>>
  /\ InExtendedViewport(PixelOfIndex(255, 1), canvas[1])
  /\ 255 \in VerticalIndices(GeneratedLines)

\* logical coordinate of pixel p on one axis, by the inverse the wheel listener uses
LogicalOfPixel(p, axis) ==
  IF axis = 1 THEN logicalMouse(R(p), canvas[1], panOffset.x, currentZoom)
  ELSE logicalMouse(R(p), canvas[2], panOffset.y, currentZoom)

\* C5: on each axis the generated indices are exactly the integers from
\* floor(minLogical) - 5 to ceil(maxLogical) + 5, minLogical and maxLogical being the
\* logical coordinates of pixel 0 and of pixel canvas.width (canvas.height).
C5_VisibleRange ==
  (probe.ran /\ ~BelowThreshold) =>
    /\ \A l \in GeneratedLines : IntegerIndex(l)
    /\ VerticalIndices(GeneratedLines) =
         (MathFloor(LogicalOfPixel(0, 1)) - 5)..(MathCeil(LogicalOfPixel(canvas[1], 1)) + 5)
    /\ HorizontalIndices(GeneratedLines) =
         (MathFloor(LogicalOfPixel(0, 2)) - 5)..(MathCeil(LogicalOfPixel(canvas[2], 2)) + 5)

C5_Witness ==
  /\ probe.ran
  /\ ~BelowThreshold
  /\ canvas = <<101, 60>>
  /\ panOffset.x = <<77, 3>>
  /\ currentZoom = <<11, 10>>
  /\ VerticalIndices(GeneratedLines) # {}
  /\ HorizontalIndices(GeneratedLines) # {}

\* C6: a logical point mapped to a pixel by vs_main and back by the wheel listener's
\* inverse formula is the point itself.
C6_RoundTrip == (probe.back # <<>>) => (probe.back = probe.L)

C6_Witness ==
  /\ probe.back # <<>>
  /\ probe.L = <<<<-7, 3>>, <<5, 2>>>>
  /\ probe.pixel # probe.L
  /\ panOffset.x = <<77, 3>>
  /\ currentZoom = <<11, 10>>

\* the integer c with c * size <= offset < (c + 1) * size
CellOf(offset, size) ==
  CHOOSE c \in -PickSpan..PickSpan :
    Le(Mul(R(c), size), offset) /\ Lt(offset, Mul(R(c + 1), size))

\* the cell index the claim gives for a click at canvas-relative (mx, my)
PickedIndex(mx, my) ==
  LET size == Mul(<<(IF canvas[1] < canvas[2] THEN canvas[1] ELSE canvas[2]), gridSize>>,
                  scale)
  IN  CellOf(Sub(R(my), cameraPos.y), size) * gridSize
      + CellOf(Sub(R(mx), cameraPos.x), size)

ClickStep == Running("grid2d_select") /\ lastEvent'.type = "click" /\ events' = events + 1

\* C7: a click at canvas-relative (mx, my) toggles row * gridSize + col, with
\* col = floor((mx - cameraPos.x) / cellSize) and row = floor((my - cameraPos.y) /
\* cellSize), and nothing else; with cellSize = 20 (a 200 x 200 canvas at scale 1)
\* and cameraPos = (0, 0), a click at (25, 45) toggles index 21.
C7_CellPicker ==
  [][ClickStep =>
       LET mx == lastEvent'.x - rect[1]
           my == lastEvent'.y - rect[2]
           picked == PickedIndex(mx, my)
       IN  /\ (picked \in selectedCells') # (picked \in selectedCells)
           /\ selectedCells' \ {picked} = selectedCells \ {picked}
           /\ (canvas = <<200, 200>> /\ scale = <<1, 1>> /\ mx = 25 /\ my = 45)
                => picked = 21]_vars

C7_Witness ==
  /\ Running("grid2d_select")
  /\ canvas = <<200, 200>>
  /\ scale = <<1, 1>>
  /\ lastEvent.type = "click"
  /\ lastEvent.x - rect[1] = 25
  /\ lastEvent.y - rect[2] = 45
  /\ events = 1
  /\ selectedCells = {21}

\* the environment gave no device: navigator.gpu missing, or a request yielded nothing
NoDevice ==
  \/ ~gpu
  \/ pc \notin {"start"} /\ adapter # "ok"
  \/ pc \notin {"start", "hasAdapter"} /\ device # "ok"

\* C8: in main() of minor.js and in mainUseUniform(), when no device is obtained the
\* function returns after exactly one alert, without configuring the context,
\* creating a GPU resource or rendering, and requests the adapter at most once.
C8_Unsupported ==
  (entry \in {"minor_main", "mainUseUniform"} /\ NoDevice) =>
    /\ pc # "running"
    /\ alerts = (IF pc = "returned" THEN 1 ELSE 0)
    /\ ~configured
    /\ resources = 0
    /\ ~rendered
    /\ adapterRequests <= 1

C8_Witness ==
  /\ entry = "mainUseUniform"
  /\ pc = "returned"
  /\ gpu
  /\ adapter = "ok"
  /\ device = "null"
  /\ alerts = 1

\* C9: in initGrid2d (both variants), testDraw.js and main.js, a start-up that ended
\* because navigator.gpu is absent or requestAdapter resolved to null has shown a
\* message to the user (an alert) and has rendered nothing.
C9_AbortWithMessage ==
  (/\ entry \in {"grid2d_panzoom", "grid2d_select", "testDraw", "main_js"}
   /\ pc \in {"rejected", "caught"}
   /\ (~gpu \/ adapter = "null")) =>
    (alerts > 0 /\ ~rendered)

\* C10: whenever frame() can run, majorLineVertices, minorLineVertices and the data of
\* the two live vertex buffers are what generateGridVertices gives for the current
\* canvas size, panOffset and currentZoom.
C10_GeometryFresh ==
  (Running("grid2d_panzoom") /\ rafPending > 0) =>
    LET g == generateGridVertices(canvas, panOffset, currentZoom)
    IN  /\ majorLineVertices = g.major
        /\ minorLineVertices = g.minor
        /\ majorVertexBuffer.created /\ ~majorVertexBuffer.destroyed
        /\ minorVertexBuffer.created /\ ~minorVertexBuffer.destroyed
        /\ majorVertexBuffer.data = g.major
        /\ minorVertexBuffer.data = g.minor

\* a frame has been rendered, then the canvas was resized and the grid dragged
C10_Witness ==
  /\ Running("grid2d_panzoom")
  /\ rafPending > 0
  /\ rendered
  /\ canvas = <<100, 60>>
  /\ isPanning
  /\ panOffset.x = <<-118, 1>>
  /\ events = 2

\* a and b lie on or outside opposite edges of the viewport, -1 and 1 in NDC
OppositeEdges(a, b) ==
  \/ Le(a, R(-1)) /\ Le(R(1), b)
  \/ Le(b, R(-1)) /\ Le(R(1), a)

\* the lines the last submitted frame drew
DrawnLines ==
  UNION {Lines(lastSubmit.draws[k].vertices) : k \in 1..Len(lastSubmit.draws)}

\* logical coordinate of pixel p on one axis under the uniforms of the last frame
SubmittedLogical(p, axis) ==
  Div(Sub(R(p), lastSubmit.uniforms.grid_origin_pixels_xy[axis]),
      lastSubmit.uniforms.scale_factor_xy[axis])

\* C11: in every submitted frame, each vertical line runs from the logical Y of the
\* top edge minus the margin (10 cells) to the logical Y of the bottom edge plus the
\* margin, each horizontal line likewise over X, and vs_main maps the two endpoints
\* of every line on or outside opposite edges of the viewport.
C11_SegmentExtent ==
  (entry = "grid2d_panzoom" /\ lastSubmit.submitted) =>
    LET u == lastSubmit.uniforms
        w == u.viewport_size_xy[1][1]
        h == u.viewport_size_xy[2][1]
    IN  \A l \in DrawnLines :
          LET from == vs_main(<<l[1], l[2]>>, u)
              to   == vs_main(<<l[3], l[4]>>, u)
          IN  IF l[1] = l[3]
              THEN /\ l[2] = Sub(SubmittedLogical(0, 2), R(10))
                   /\ l[4] = Add(SubmittedLogical(h, 2), R(10))
                   /\ OppositeEdges(from[2], to[2])
              ELSE /\ l[1] = Sub(SubmittedLogical(0, 1), R(10))
                   /\ l[3] = Add(SubmittedLogical(w, 1), R(10))
                   /\ OppositeEdges(from[1], to[1])

\* The extents that generateGridVertices gives the lines, and the horizontal lines
\* under vs_main: this much holds in every submitted frame.
ExtentOfGeneratedLines ==
  (entry = "grid2d_panzoom" /\ lastSubmit.submitted) =>
    LET u == lastSubmit.uniforms
        w == u.viewport_size_xy[1][1]
        h == u.viewport_size_xy[2][1]
    IN  \A l \in DrawnLines :
          IF l[1] = l[3]
          THEN /\ l[2] = Sub(SubmittedLogical(0, 2), R(10))
               /\ l[4] = Add(SubmittedLogical(h, 2), R(10))
          ELSE /\ l[1] = Sub(SubmittedLogical(0, 1), R(10))
               /\ l[3] = Add(SubmittedLogical(w, 1), R(10))
               /\ OppositeEdges(vs_main(<<l[1], l[2]>>, u)[1], vs_main(<<l[3], l[4]>>, u)[1])

\* twice the input, element by element
Doubled == [k \in 1..Len(input) |-> 2 * input[k]]

\* C12: in renderCompute every element of the work buffer is the input doubled at
\* most once, the result buffer holds nothing but zeros before the copy and the
\* doubled input after it, the result is read only when the queue has finished and
\* mapAsync has resolved, and after unmap the result array is still the doubled
\* input: [2, 6, 10] for the input [1, 3, 5].
C12_DoublingCompute ==
  entry = "main_old" =>
    /\ \A k \in 1..Len(compute.workBuffer) :
         compute.workBuffer[k] \in {0, input[k], 2 * input[k]}
    /\ compute.resultBuffer \in {<<>>, [k \in 1..Len(input) |-> 0], Doubled}
    /\ compute.mapState = "mapped" => compute.resultBuffer = Doubled
    /\ compute.read =>
         /\ compute.queue = <<>> /\ compute.invocations = {}
         /\ compute.mapState = "unmapped"
         /\ compute.result = Doubled
         /\ compute.result = <<2, 6, 10>>

\* renderCompute has returned with its result, the buffer unmapped
C12_Witness ==
  /\ entry = "main_old"
  /\ pc = "returned"
  /\ compute.read
  /\ compute.mapState = "unmapped"
  /\ compute.result = <<2, 6, 10>>

\* C13: in every entry point no method of the device has been called while the
\* device was not yet acquired (null or undefined): GPU objects exist and frames
\* have been submitted only with a usable device, and main.js has made no call on
\* its module-level variable device while it held null.
C13_AcquireBeforeUse ==
  /\ (resources > 0 \/ rendered) => device = "ok"
  /\ observed.nullDeviceCalls = 0

\* column and row the claim gives for a click at canvas-relative (mx, my)
PickedCol(mx) ==
  CellOf(Sub(R(mx), cameraPos.x),
         Mul(<<(IF canvas[1] < canvas[2] THEN canvas[1] ELSE canvas[2]), gridSize>>, scale))
PickedRow(my) ==
  CellOf(Sub(R(my), cameraPos.y),
         Mul(<<(IF canvas[1] < canvas[2] THEN canvas[1] ELSE canvas[2]), gridSize>>, scale))

InGrid(c) == c \in 0..(gridSize - 1)

\* C14: a click whose column or row lies outside [0, gridSize) is handled like any
\* other: row * gridSize + col changes its membership in selectedCells and no other
\* index does.
C14_NoBoundsValidation ==
  [][(/\ ClickStep
      /\ \/ ~InGrid(PickedCol(lastEvent'.x - rect[1]))
         \/ ~InGrid(PickedRow(lastEvent'.y - rect[2]))) =>
       LET index == PickedRow(lastEvent'.y - rect[2]) * gridSize
                    + PickedCol(lastEvent'.x - rect[1])
       IN  /\ (index \in selectedCells') # (index \in selectedCells)
           /\ selectedCells' \ {index} = selectedCells \ {index}]_vars

\* selectedCells holds an index below 0 and one above gridSize * gridSize - 1
C14_Witness ==
  /\ Running("grid2d_select")
  /\ lastEvent.type = "click"
  /\ \E i \in selectedCells : i < 0
  /\ \E i \in selectedCells : i >= gridSize * gridSize

WheelStep ==
  Running("grid2d_panzoom") /\ lastEvent'.type = "wheel" /\ events' = events + 1

ExecutedColor(k) == lastSubmit.uniforms.line_color

\* C16: in every submitted frame that draws both line sets, the minor lines are
\* drawn with line_color = minorLineColor and the major lines with line_color =
\* majorLineColor.
C16_LineColours ==
  (entry = "grid2d_panzoom" /\ lastSubmit.submitted /\ Len(lastSubmit.draws) = 2) =>
    /\ lastSubmit.draws[1].written = minorLineColor
    /\ ExecutedColor(1) = minorLineColor
    /\ lastSubmit.draws[2].written = majorLineColor
    /\ ExecutedColor(2) = majorLineColor

\* C17: whenever the selectable-cell grid renders a frame, the cells drawn red are
\* exactly the cells whose index is in selectedCells.
C17_SelectionShown ==
  (Running("grid2d_select") /\ rafPending > 0) =>
    \A c \in 0..(gridSize * gridSize - 1) :
      (c \in renderSubmit.red) <=> (c \in selectedCells)

MouseMoveStep ==
  Running("grid2d_panzoom") /\ lastEvent'.type = "mousemove" /\ events' = events + 1

\* C18: isPanning is true exactly when the last of the events mousedown with button
\* 0, mouseup and mouseleave was a mousedown with button 0 (so no other event, a
\* mousedown with another button included, changes it), and a mousemove while
\* isPanning is false changes neither panOffset nor lastMousePos and makes no call
\* of updateVertexBuffers.
C18_PanStateMachine ==
  /\ [](entry = "grid2d_panzoom" => (isPanning <=> observed.lastPanEvent = "mousedown"))
  /\ [][(MouseMoveStep /\ ~isPanning) =>
          UNCHANGED <<panOffset, lastMousePos, majorLineVertices, minorLineVertices,
                      majorVertexBuffer, minorVertexBuffer, liveVertexBuffers,
                      bufferUpdates>>]_vars

\* after a drag has ended with mouseup, a mousemove came and nothing was regenerated
C18_Witness ==
  /\ Running("grid2d_panzoom")
  /\ observed.lastPanEvent = "mouseup"
  /\ ~isPanning
  /\ lastEvent.type = "mousemove"
  /\ events = 1
  /\ bufferUpdates = 1

Usable(buffer) == IF buffer.created /\ ~buffer.destroyed THEN 1 ELSE 0

\* C20: in the pan/zoom grid the vertex buffers alive are the ones the two
\* variables hold, at most one major and one minor, and every draw of a submitted
\* frame had a buffer bound that was not destroyed and held at least the vertices
\* drawn (two floats each).
C20_BufferLifecycle ==
  entry = "grid2d_panzoom" =>
    /\ liveVertexBuffers <= 2
    /\ liveVertexBuffers = Usable(majorVertexBuffer) + Usable(minorVertexBuffer)
    /\ lastSubmit.submitted =>
         \A k \in 1..Len(lastSubmit.draws) :
           /\ ~lastSubmit.draws[k].bufferDestroyed
           /\ 2 * lastSubmit.draws[k].vertexCount <= lastSubmit.draws[k].bufferFloats
           /\ Len(lastSubmit.draws[k].vertices) = 2 * lastSubmit.draws[k].vertexCount

\* the buffers have been replaced twice and a frame has drawn from the last pair
C20_Witness ==
  /\ Running("grid2d_panzoom")
  /\ bufferUpdates = 3
  /\ liveVertexBuffers = 2
  /\ lastSubmit.submitted
  /\ Len(lastSubmit.draws) = 2
  /\ lastSubmit.uniforms.grid_origin_pixels_xy[1] = <<32, 1>>
  /\ lastSubmit.draws[2].vertices = majorLineVertices

GridDemos == {"grid2d_panzoom", "grid2d_select"}

TriangleDemos == {"minor_main", "mainUseUniform"}

\* a ResizeObserver notification is delivered to the pan/zoom grid
ResizeStep ==
  /\ Running("grid2d_panzoom")
  /\ lastEvent'.type = "resize"
  /\ events' = events + 1

C23_SelectionToggle ==
  [][ClickStep =>
       LET picked == PickedIndex(lastEvent'.x - rect[1], lastEvent'.y - rect[2])
       IN  /\ picked \notin selectedCells => selectedCells' = selectedCells \cup {picked}
           /\ picked \in selectedCells => selectedCells' = selectedCells \ {picked}
           /\ (observed.clickRun >= 1 /\ observed.clickIndex = picked)
                => selectedCells' = observed.clickBefore]_vars

\* two clicks in a row at different points of cell 21: the second one removed what
\* the first had added
C23_Witness ==
  /\ Running("grid2d_select")
  /\ observed.clickRun = 2
  /\ observed.clickIndex = 21
  /\ observed.clickBefore = {21}
  /\ lastEvent = [type |-> "click", x |-> 33, y |-> 53]
  /\ rect = <<0, 0>>
  /\ selectedCells = {}

\* C24: in the pan/zoom grid baseCellSize * currentZoom is at least 2 in every
\* reachable state, so generateGridVertices does not take its early return: once
\* the page runs both vertex arrays are non-empty, and every frame submitted drew
\* both of them.
C24_AboveThreshold ==
  entry = "grid2d_panzoom" =>
    /\ ~BelowThreshold
    /\ pc = "running" => (Len(majorLineVertices) > 0 /\ Len(minorLineVertices) > 0)
    /\ lastSubmit.submitted =>
         /\ Len(lastSubmit.draws) = 2
         /\ \A k \in 1..2 : lastSubmit.draws[k].vertexCount > 0

\* a wheel event zoomed out at the lower limit of the zoom, where the cell is 2.5
\* pixels wide, and a frame drew the minor and the major lines
C24_Witness ==
  /\ Running("grid2d_panzoom")
  /\ lastEvent.type = "wheel"
  /\ lastEvent.deltaY > 0
  /\ currentZoom = zoomMin
  /\ effectiveCellSize(currentZoom) = <<5, 2>>
  /\ lastSubmit.submitted
  /\ lastSubmit.uniforms.scale_factor_xy[1] = <<5, 2>>
  /\ Len(lastSubmit.draws) = 2

\* the k-th line of a vertex array
LineAt(vertices, k) ==
  <<vertices[4 * k - 3], vertices[4 * k - 2], vertices[4 * k - 1], vertices[4 * k]>>

\* the positions of the vertical and of the horizontal lines in a vertex array
VerticalSlots(vertices) ==
  {k \in 1..(Len(vertices) \div 4) : LineAt(vertices, k)[1] = LineAt(vertices, k)[3]}
HorizontalSlots(vertices) ==
  {k \in 1..(Len(vertices) \div 4) : LineAt(vertices, k)[2] = LineAt(vertices, k)[4]}

SlotIndices(vertices, slots) == {LineIndex(LineAt(vertices, k)) : k \in slots}

\* S is the set of the integers from floor(lo) to ceil(hi), i.e. of those strictly
\* between lo - 1 and hi + 1: it lies in that interval, is not empty, and with an
\* index holds its neighbours that lie in the interval
IsIndexRange(S, lo, hi) ==
  /\ S # {}
  /\ \A i \in S :
       /\ Lt(Sub(lo, R(1)), R(i)) /\ Lt(R(i), Add(hi, R(1)))
       /\ Lt(R(i + 1), Add(hi, R(1))) => i + 1 \in S
       /\ Lt(Sub(lo, R(1)), R(i - 1)) => i - 1 \in S

\* C25: in the running pan/zoom grid the vertical lines generated are fewer than
\* canvas.width / effectiveCellSize + 13 and the horizontal ones fewer than
\* canvas.height / effectiveCellSize + 13; both arrays consist of whole lines of 4
\* numbers, and every index from floor(viewMin) to ceil(viewMax) of an axis has
\* exactly one line in exactly one of the two arrays, with no line beside these.
C25_BoundedLineCount ==
  Running("grid2d_panzoom") =>
    LET size == effectiveCellSize(currentZoom)
        mv == VerticalSlots(majorLineVertices)
        nv == VerticalSlots(minorLineVertices)
        mh == HorizontalSlots(majorLineVertices)
        nh == HorizontalSlots(minorLineVertices)
        xs == SlotIndices(majorLineVertices, mv) \cup SlotIndices(minorLineVertices, nv)
        ys == SlotIndices(majorLineVertices, mh) \cup SlotIndices(minorLineVertices, nh)
    IN  /\ Lt(R(Cardinality(mv) + Cardinality(nv)), Add(Div(R(canvas[1]), size), R(13)))
        /\ Lt(R(Cardinality(mh) + Cardinality(nh)), Add(Div(R(canvas[2]), size), R(13)))
        /\ Len(majorLineVertices) % 4 = 0
        /\ Len(minorLineVertices) % 4 = 0
        /\ Cardinality(mv) + Cardinality(mh) = Len(majorLineVertices) \div 4
        /\ Cardinality(nv) + Cardinality(nh) = Len(minorLineVertices) \div 4
        /\ \A l \in GeneratedLines : IntegerIndex(l)
        /\ Cardinality(mv) + Cardinality(nv) = Cardinality(xs)
        /\ IsIndexRange(xs, viewMinLogical(canvas[1], panOffset.x, currentZoom),
                            viewMaxLogical(canvas[1], panOffset.x, currentZoom))
        /\ Cardinality(mh) + Cardinality(nh) = Cardinality(ys)
        /\ IsIndexRange(ys, viewMinLogical(canvas[2], panOffset.y, currentZoom),
                            viewMaxLogical(canvas[2], panOffset.y, currentZoom))

\* at the lower limit of the zoom a 300 x 150 canvas holds 131 vertical lines (fewer
\* than 300 / 2.5 + 13 = 133) and 71 horizontal ones (fewer than 150 / 2.5 + 13 = 73)
C25_Witness ==
  /\ Running("grid2d_panzoom")
  /\ canvas = <<300, 150>>
  /\ currentZoom = zoomMin
  /\ panOffset = [x |-> R(0), y |-> R(0)]
  /\ Cardinality(VerticalSlots(majorLineVertices))
       + Cardinality(VerticalSlots(minorLineVertices)) = 131
  /\ Cardinality(HorizontalSlots(majorLineVertices))
       + Cardinality(HorizontalSlots(minorLineVertices)) = 71
  /\ Len(majorLineVertices) + Len(minorLineVertices) = 4 * (131 + 71)

====
